---- MODULE Spec2Model ----
(***************************************************************************)
(* Capture transport of the RP2040 oscilloscope: the host-side             *)
(* DAQInterface (sysaudio/daq.py, src/daq.py), the firmware command loop   *)
(* (firmware/main.py) and the capture loops of capture_sweep_transfer     *)
(* and capture_continuous_stream (sysaudio/experiments.py).                *)
(*                                                                         *)
(* The serial link is two byte queues.  Every byte in flight carries, next *)
(* to its value, the number of the device reply it belongs to and its      *)
(* position in that reply, so that framing can be stated.                  *)
(***************************************************************************)
EXTENDS Integers, Sequences, FiniteSets, TLC

\* ---------------------------------------------------------------- constants
\* config.py (host side)
BURST_SAMPLES == 16384
LIVE_SAMPLES == 1024
\* firmware/main.py (device side; LIVE_SAMPLES there)
MAX_SAMPLES == 16384
FW_LIVE_SAMPLES == 1024

\* ------------------------------------------------------------------- bounds
\* Number of samples that stand for one live chunk in the model.
LiveUnits == 1
\* Number of DAQInterface objects (with-blocks) the caller creates in a row.
MaxSessions == 2
\* Number of commands the device serves before it stops replying.
MaxCmds == 3
\* Number of reply bytes still on their way when the caller starts the next
\* session.
MaxStale == 2

\* Sample counts are kept on a binary-logarithmic scale: a count of
\* LIVE_SAMPLES real samples is LiveUnits model samples, and every doubling
\* is one model sample more (16384 real samples are LiveUnits + 4).  Equal
\* real counts give equal model counts, and a count that is off by a factor
\* of two or more gives a different one.
RECURSIVE Log2(_)
Log2(n) == IF n <= 1 THEN 0 ELSE 1 + Log2(n \div 2)
Units(n) ==
  LET u == Log2(n) - Log2(LIVE_SAMPLES) + LiveUnits IN IF u < 0 THEN 0 ELSE u

\* ADC readings: read_u16 returns a 16-bit value.  Sample i of reply rid is
\* taken from a ramp, so that the samples of a reply differ from each other
\* and from those of the other replies, and both bytes of a sample vary.
AdcRead(rid, i) == (4660 * rid + 259 * i) % 65536

\* Arguments the callers pass: the defaults of config.py, and a short burst.
BurstArgs == {1, Units(BURST_SAMPLES)}
ChunkArgs == {Units(LIVE_SAMPLES)}

VARIABLES
  session,     \* number of the current DAQInterface object
  prog,        \* what the with-block of this session does: "burst", "sweep"
               \* or "record" (capture_continuous_stream)
  pc,          \* caller position: "init", "opened", "waited", "body", "after"
  entered,     \* __enter__ returned, the body of the with-block was entered
  bodyEnd,     \* how the body ended: "none", "normal", "exception", "break", "interrupt"
  ser,         \* self.ser: 0 is None, h > 0 the serial.Serial object h
  isOpen,      \* is_open of every Serial object
  closeCalls,  \* how often close() was called on every Serial object
  err,         \* the last exception an operation raised, "none" if none
  lastCall,    \* the last capture_burst / stream_generator call and its outcome
  bpc,         \* capture_burst: "idle", "read", "returned", "raised"
  burstN,      \* capture_burst's samples argument
  gen,         \* the generator: "none", "created", "write", "read", "yield",
               \* "raised", "finished", "closed"
  chunkSize,   \* stream_generator's chunk_size argument
  written,     \* command bytes written since the call began / the last read ended
  lastRead,    \* the bytes the last ser.read returned
  result,      \* the array last returned by capture_burst or yielded
  frames,      \* capture_sweep_transfer's frames list (chunks by ChunkId)
  audio,       \* sounddevice stream: "idle", "active", "done"
  timedOut,    \* time.time() - start_time > duration + 2.0
  cmdq,        \* command bytes on their way to the device
  wire,        \* reply bytes on their way to the host
  rxbuf,       \* the host's serial input buffer
  cmdlog,      \* every command byte the device was sent, in order
  replylog,    \* every reply the device wrote: its command and its byte count
  devAlive,    \* the device still serves commands
  dspIn,       \* the analysis or synthesis function called and its arguments
  dspOut,      \* what the call returned or raised; Pending before the call
  yielded,     \* every chunk the generator of this session yielded (by ChunkId)
  saved        \* every array handed to io.save_signal, as its list of chunks

sessVars == <<session, prog, pc, entered, bodyEnd, ser, isOpen, closeCalls>>
callVars == <<err, lastCall, bpc, burstN, gen, chunkSize, written, lastRead, result, frames>>
audioVars == <<audio, timedOut>>
linkVars == <<cmdq, wire, rxbuf, cmdlog, replylog, devAlive>>
dspVars == <<dspIn, dspOut>>
recVars == <<yielded, saved>>
vars == <<sessVars, callVars, audioVars, linkVars, dspVars, recVars>>

Handles == 1..MaxSessions
\* A call of the interface: the operation, whether the session was connected
\* when it was called, what the call itself raised, and how many buffered
\* bytes it discarded.
Call(op, conn, raised, dropped) ==
  [op |-> op, connected |-> conn, raised |-> raised, dropped |-> dropped]
NoCall == Call("none", FALSE, "none", 0)

\* ---------------------------------------------------------------- encoding
\* memoryview(adc_buffer) of an array("H") on the little-endian RP2040:
\* sample k is bytes 2k-1 (low) and 2k (high).
MemoryViewByte(sample, half) == IF half = 1 THEN sample % 256 ELSE sample \div 256

\* np.frombuffer(raw, dtype="<u2")
FromBuffer(raw) ==
  [k \in 1..(Len(raw) \div 2) |-> raw[2 * k - 1].val + 256 * raw[2 * k].val]

\* Variant: the input buffer is left as it is.
KeepInputBuffer(buf) == buf
\* ser.reset_input_buffer(): the input buffer is emptied
ResetInputBuffer(buf) == << >>

\* ---------------------------------------------------------------- firmware
\* Variant: the firmware replies with the whole buffer to either command.
FwReplyWholeBuffer(cmd) == Units(MAX_SAMPLES)
\* capture_burst(adc, adc_buffer, size) followed by the write of the reply
FwReplySamples(cmd) ==
  IF cmd = "s" THEN Units(MAX_SAMPLES) ELSE Units(FW_LIVE_SAMPLES)
FwReply(cmd, rid) ==
  [k \in 1..(2 * FwReplySamples(cmd)) |->
     [val |-> MemoryViewByte(AdcRead(rid, (k + 1) \div 2), 2 - (k % 2)),
      rid |-> rid, pos |-> k, pre |-> FALSE]]

\* ------------------------------------------------------------------- link
\* After the last with-block the caller explores, nothing reads the link.
Finished == pc = "after" /\ session = MaxSessions
\* Calls on an object that is not connected never touch the link; they are
\* explored before connect() and, after the last with-block, on a quiet link.
LinkIdle == cmdq = << >> /\ wire = << >> /\ rxbuf = << >>
Unconnected == pc = "init" \/ (Finished /\ LinkIdle)

\* ser.write(c).  The device serves MaxCmds commands; a byte written after
\* that is never answered.
SerWrite(c) ==
  IF devAlive /\ Len(cmdlog) < MaxCmds
  THEN /\ cmdq' = Append(cmdq, c)
       /\ cmdlog' = Append(cmdlog, c)
       /\ UNCHANGED devAlive
  ELSE /\ devAlive' = FALSE
       /\ UNCHANGED <<cmdq, cmdlog>>

\* firmware main(): read one command byte, capture, write the reply
FwServe ==
  /\ devAlive /\ cmdq # << >> /\ ~Finished
  /\ wire' = wire \o FwReply(Head(cmdq), Len(replylog) + 1)
  /\ replylog' = Append(replylog,
                   [cmd |-> Head(cmdq), bytes |-> 2 * FwReplySamples(Head(cmdq))])
  /\ cmdq' = Tail(cmdq)
  /\ UNCHANGED <<rxbuf, cmdlog, devAlive>>
  /\ UNCHANGED <<sessVars, callVars, audioVars>>
  /\ UNCHANGED dspVars
  /\ UNCHANGED recVars

\* k reply bytes reach the host's input buffer.  A byte that arrives while
\* connect() of the current session has not returned is marked pre.
Deliver(k) ==
  /\ k \in 1..Len(wire) /\ ~Finished
  /\ rxbuf' = rxbuf \o [i \in 1..k |-> [wire[i] EXCEPT !.pre = (pc # "body")]]
  /\ wire' = SubSeq(wire, k + 1, Len(wire))
  /\ UNCHANGED <<cmdq, cmdlog, replylog, devAlive>>
  /\ UNCHANGED <<sessVars, callVars, audioVars>>
  /\ UNCHANGED dspVars
  /\ UNCHANGED recVars

\* ---------------------------------------------------------------- session
Connected == ser # 0 /\ isOpen[ser]

\* connect(): serial.Serial(port, baud, timeout) succeeds.  What the caller
\* did with the unconnected object before is forgotten here.
ConnectOpen ==
  /\ pc = "init"
  /\ ser' = session
  /\ isOpen' = [isOpen EXCEPT ![session] = TRUE]
  /\ pc' = "opened"
  /\ err' = "none" /\ lastCall' = NoCall /\ gen' = "none"
  /\ UNCHANGED <<session, prog, entered, bodyEnd, closeCalls>>
  /\ UNCHANGED <<bpc, burstN, chunkSize, written, lastRead, result, frames>>
  /\ UNCHANGED <<audioVars, linkVars>>
  /\ UNCHANGED dspVars
  /\ UNCHANGED recVars

\* connect(): serial.Serial raises SerialException, re-raised as IOError
ConnectOpenFail ==
  /\ pc = "init"
  /\ pc' = "after"
  /\ err' = "IOError"
  /\ lastCall' = NoCall /\ gen' = "none"
  /\ UNCHANGED <<session, prog, entered, bodyEnd, ser, isOpen, closeCalls>>
  /\ UNCHANGED <<bpc, burstN, chunkSize, written, lastRead, result, frames>>
  /\ UNCHANGED <<audioVars, linkVars>>
  /\ UNCHANGED dspVars
  /\ UNCHANGED recVars

\* connect(): time.sleep(2)
ConnectWait ==
  /\ pc = "opened"
  /\ pc' = "waited"
  /\ UNCHANGED <<session, prog, entered, bodyEnd, ser, isOpen, closeCalls>>
  /\ UNCHANGED <<callVars, audioVars, linkVars>>
  /\ UNCHANGED dspVars
  /\ UNCHANGED recVars

\* Variant: connect() returns without discarding the buffered input.
ConnectDiscardKeep ==
  /\ pc = "waited"
  /\ rxbuf' = KeepInputBuffer(rxbuf)
  /\ pc' = "body"
  /\ entered' = TRUE
  /\ lastCall' = Call("connect", FALSE, "none", Len(rxbuf) - Len(rxbuf'))
  /\ UNCHANGED <<session, prog, bodyEnd, ser, isOpen, closeCalls>>
  /\ UNCHANGED <<cmdq, wire, cmdlog, replylog, devAlive>>
  /\ UNCHANGED <<err, bpc, burstN, gen, chunkSize, written, lastRead, result, frames>>
  /\ UNCHANGED audioVars
  /\ UNCHANGED dspVars
  /\ UNCHANGED recVars
\* connect(): self.ser.reset_input_buffer(), then connect and __enter__ return
ConnectDiscard ==
  /\ pc = "waited"
  /\ rxbuf' = ResetInputBuffer(rxbuf)
  /\ pc' = "body"
  /\ entered' = TRUE
  /\ lastCall' = Call("connect", FALSE, "none", Len(rxbuf) - Len(rxbuf'))
  /\ UNCHANGED <<session, prog, bodyEnd, ser, isOpen, closeCalls>>
  /\ UNCHANGED <<cmdq, wire, cmdlog, replylog, devAlive>>
  /\ UNCHANGED <<err, bpc, burstN, gen, chunkSize, written, lastRead, result, frames>>
  /\ UNCHANGED audioVars
  /\ UNCHANGED dspVars
  /\ UNCHANGED recVars

\* connect(): self.ser.reset_input_buffer() raises SerialException after the
\* port was opened (the device is unplugged during the wait); the except
\* clause re-raises it as IOError and closes nothing.  __enter__ does not
\* return, so the with-block is not entered and __exit__ is not called.
ConnectDiscardFail ==
  /\ pc = "waited"
  /\ pc' = "after"
  /\ err' = "IOError"
  /\ lastCall' = Call("connect", FALSE, "IOError", 0)
  /\ UNCHANGED <<session, prog, entered, bodyEnd, ser, isOpen, closeCalls>>
  /\ UNCHANGED <<bpc, burstN, gen, chunkSize, written, lastRead, result, frames>>
  /\ UNCHANGED <<audioVars, linkVars>>
  /\ UNCHANGED dspVars
  /\ UNCHANGED recVars

\* Variant: disconnect() closes without looking at is_open.
DisconnectUnguarded ==
  IF ser # 0
  THEN /\ isOpen' = [isOpen EXCEPT ![ser] = FALSE]
       /\ closeCalls' = [closeCalls EXCEPT ![ser] = @ + 1]
  ELSE UNCHANGED <<isOpen, closeCalls>>
\* disconnect(): if self.ser and self.ser.is_open: self.ser.close()
Disconnect ==
  IF ser # 0 /\ isOpen[ser]
  THEN /\ isOpen' = [isOpen EXCEPT ![ser] = FALSE]
       /\ closeCalls' = [closeCalls EXCEPT ![ser] = @ + 1]
  ELSE UNCHANGED <<isOpen, closeCalls>>

\* Variant: the channel is released only when the body ends without an exception.
ExitOnlyIfNoException(how) ==
  /\ IF how \in {"normal", "break"}
     THEN Disconnect
     ELSE UNCHANGED <<isOpen, closeCalls>>
  /\ pc' = "after"
  /\ bodyEnd' = how
  /\ UNCHANGED <<session, prog, entered, ser>>
\* The with-block is left in the way `how`: __exit__(exc_type, exc_val,
\* exc_tb) runs disconnect() and lets an exception pass.  What is left in
\* the input buffer was buffered before any later connect() returns.
Exit(how) ==
  /\ Disconnect
  /\ pc' = "after"
  /\ bodyEnd' = how
  /\ UNCHANGED <<session, prog, entered, ser>>

MarkPre(buf) == [i \in 1..Len(buf) |-> [buf[i] EXCEPT !.pre = TRUE]]

\* a further disconnect() after the last with-block
DisconnectAgain ==
  /\ Finished /\ LinkIdle
  /\ Disconnect
  /\ lastCall' = Call("disconnect", Connected, "none", 0)
  /\ UNCHANGED <<session, prog, pc, entered, bodyEnd, ser>>
  /\ UNCHANGED <<err, bpc, burstN, gen, chunkSize, written, lastRead, result, frames>>
  /\ UNCHANGED <<audioVars, linkVars>>
  /\ UNCHANGED dspVars
  /\ UNCHANGED recVars

\* KeyboardInterrupt in the body of the with-block: it ends a running
\* capture_burst or generator and leaves the block through __exit__
KeyboardInterrupt ==
  /\ pc = "body"
  /\ Exit("interrupt")
  /\ err' = "KeyboardInterrupt"
  /\ gen' = IF gen \in {"created", "write", "read", "yield"} THEN "closed" ELSE gen
  /\ bpc' = IF bpc = "read" THEN "raised" ELSE bpc
  /\ lastRead' = << >> /\ result' = << >>
  /\ rxbuf' = MarkPre(rxbuf)
  /\ UNCHANGED <<lastCall, burstN, chunkSize, written, frames>>
  /\ UNCHANGED <<cmdq, wire, cmdlog, replylog, devAlive>>
  /\ UNCHANGED audioVars
  /\ UNCHANGED dspVars
  /\ UNCHANGED recVars

\* the caller constructs the next DAQInterface: __init__ sets self.ser = None
PendingBytes == Len(wire) + 2 * Len(cmdq) * Units(MAX_SAMPLES)
NewSession ==
  /\ pc = "after" /\ session < MaxSessions
  /\ PendingBytes <= MaxStale
  /\ session' = session + 1
  /\ \E p \in {"burst", "sweep"} : prog' = p
  /\ pc' = "init" /\ entered' = FALSE /\ bodyEnd' = "none" /\ ser' = 0
  /\ err' = "none" /\ lastCall' = NoCall /\ bpc' = "idle" /\ burstN' = 0
  /\ gen' = "none" /\ chunkSize' = 0 /\ written' = << >> /\ lastRead' = << >>
  /\ result' = << >> /\ frames' = << >>
  /\ audio' = "idle" /\ timedOut' = FALSE
  /\ UNCHANGED <<isOpen, closeCalls, linkVars>>
  /\ UNCHANGED dspVars
  /\ yielded' = << >> /\ UNCHANGED saved

SessionInit(progs) ==
  /\ session = 1 /\ prog \in progs
  /\ pc = "init" /\ entered = FALSE /\ bodyEnd = "none" /\ ser = 0
  /\ isOpen = [h \in Handles |-> FALSE]
  /\ closeCalls = [h \in Handles |-> 0]
  /\ err = "none" /\ lastCall = NoCall /\ bpc = "idle" /\ burstN = 0
  /\ gen = "none" /\ chunkSize = 0 /\ written = << >> /\ lastRead = << >>
  /\ result = << >> /\ frames = << >>
  /\ audio = "idle" /\ timedOut = FALSE
  /\ cmdq = << >> /\ wire = << >> /\ rxbuf = << >>
  /\ cmdlog = << >> /\ replylog = << >> /\ devAlive = TRUE
  /\ yielded = << >> /\ saved = << >>

TransportInit == SessionInit({"burst", "sweep"})

\* No analysis or synthesis function is called while the transport runs.
NoInput == [fn |-> "none"]
Pending == [status |-> "pending"]
Init == TransportInit /\ dspIn = NoInput /\ dspOut = Pending

\* ---------------------------------------------------------- capture_burst
\* capture_burst(samples) up to its blocking read: the check of self.ser,
\* reset_input_buffer (which raises on a closed port), write(b"s").
\* Outside a with-block the caller catches what the call raises.
CaptureBurstStart(n) ==
  /\ \/ pc = "body" /\ prog = "burst" /\ bpc = "idle"
     \/ Unconnected
  /\ IF ser = 0
     THEN /\ err' = "AttributeError"
          /\ lastCall' = Call("capture_burst", Connected, "AttributeError", 0)
          /\ UNCHANGED <<bpc, burstN, written, linkVars>>
     ELSE IF ~isOpen[ser]
     THEN /\ err' = "PortNotOpenError"
          /\ lastCall' = Call("capture_burst", Connected, "PortNotOpenError", 0)
          /\ UNCHANGED <<bpc, burstN, written, linkVars>>
     ELSE /\ rxbuf' = ResetInputBuffer(rxbuf)
          /\ SerWrite("s")
          /\ written' = <<"s">>
          /\ bpc' = "read" /\ burstN' = n
          /\ lastCall' = Call("capture_burst", Connected, "none", Len(rxbuf))
          /\ UNCHANGED <<err, wire, replylog>>
  /\ UNCHANGED <<gen, chunkSize, lastRead, result, frames>>
  /\ UNCHANGED <<sessVars, audioVars>>
  /\ UNCHANGED dspVars
  /\ UNCHANGED recVars

\* raw = self.ser.read(expected_bytes) returns all the bytes asked for:
\* return np.frombuffer(raw, dtype="<u2"); the with-block ends
CaptureBurstReturn ==
  /\ pc = "body" /\ bpc = "read"
  /\ Len(rxbuf) >= 2 * burstN
  /\ lastRead' = SubSeq(rxbuf, 1, 2 * burstN)
  /\ rxbuf' = MarkPre(SubSeq(rxbuf, 2 * burstN + 1, Len(rxbuf)))
  /\ result' = FromBuffer(lastRead')
  /\ bpc' = "returned"
  /\ Exit("normal")
  /\ UNCHANGED <<err, lastCall, burstN, gen, chunkSize, written, frames>>
  /\ UNCHANGED <<cmdq, wire, cmdlog, replylog, devAlive>>
  /\ UNCHANGED audioVars
  /\ UNCHANGED dspVars
  /\ UNCHANGED recVars

\* Variant: a short read is decoded and returned.
CaptureBurstTruncated ==
  /\ pc = "body" /\ bpc = "read"
  /\ Len(rxbuf) < 2 * burstN
  /\ lastRead' = rxbuf
  /\ rxbuf' = << >>
  /\ result' = FromBuffer(lastRead')
  /\ bpc' = "returned"
  /\ Exit("normal")
  /\ UNCHANGED <<err, lastCall, burstN, gen, chunkSize, written, frames>>
  /\ UNCHANGED <<cmdq, wire, cmdlog, replylog, devAlive>>
  /\ UNCHANGED audioVars
  /\ UNCHANGED dspVars
  /\ UNCHANGED recVars
\* the read times out with fewer bytes: raise IOError("Incomplete read ...");
\* the exception leaves the with-block
CaptureBurstIncomplete ==
  /\ pc = "body" /\ bpc = "read"
  /\ Len(rxbuf) < 2 * burstN
  /\ lastRead' = rxbuf
  /\ rxbuf' = << >>
  /\ err' = "IOError"
  /\ bpc' = "raised"
  /\ Exit("exception")
  /\ UNCHANGED <<lastCall, burstN, gen, chunkSize, written, result, frames>>
  /\ UNCHANGED <<cmdq, wire, cmdlog, replylog, devAlive>>
  /\ UNCHANGED audioVars
  /\ UNCHANGED dspVars
  /\ UNCHANGED recVars

\* ------------------------------------------------------- stream_generator
\* A chunk is named by the reply and position of its
\* first byte.
ChunkId(raw) == IF raw = << >> THEN <<0, 0>> ELSE <<raw[1].rid, raw[1].pos>>

\* stream_generator(chunk_size) is a generator function: the call builds the
\* generator object and runs none of the body.
StreamCall(c) ==
  /\ \/ /\ pc = "body" /\ prog = "sweep" /\ audio # "idle" /\ gen = "none"
     \/ /\ pc = "body" /\ prog = "record" /\ gen = "none"
     \/ /\ Unconnected
        /\ gen \in {"none", "raised", "closed"}
  /\ gen' = "created" /\ chunkSize' = c
  /\ lastCall' = Call("stream_generator", Connected, "none", 0)
  /\ UNCHANGED <<err, bpc, burstN, written, lastRead, result, frames>>
  /\ UNCHANGED <<sessVars, audioVars, linkVars>>
  /\ UNCHANGED dspVars
  /\ UNCHANGED recVars

\* first next(): the check of self.ser, then reset_input_buffer (which raises
\* on a closed port), up to the top of the while loop
GenStart ==
  /\ gen = "created"
  /\ IF ser = 0
     THEN /\ err' = "AttributeError" /\ gen' = "raised"
          /\ UNCHANGED <<written, rxbuf>>
     ELSE IF ~isOpen[ser]
     THEN /\ err' = "PortNotOpenError" /\ gen' = "raised"
          /\ UNCHANGED <<written, rxbuf>>
     ELSE /\ rxbuf' = ResetInputBuffer(rxbuf)
          /\ gen' = "write" /\ written' = << >>
          /\ UNCHANGED err
  /\ UNCHANGED <<lastCall, bpc, burstN, chunkSize, lastRead, result, frames>>
  /\ UNCHANGED <<cmdq, wire, cmdlog, replylog, devAlive>>
  /\ UNCHANGED <<sessVars, audioVars>>
  /\ UNCHANGED dspVars
  /\ UNCHANGED recVars

\* self.ser.write(b"v"); raw of the previous pass is dead
GenWrite ==
  /\ pc = "body" /\ gen = "write" /\ Connected
  /\ SerWrite("v")
  /\ written' = Append(written, "v")
  /\ gen' = "read"
  /\ lastRead' = << >>
  /\ UNCHANGED <<wire, rxbuf, replylog>>
  /\ UNCHANGED <<err, lastCall, bpc, burstN, chunkSize, result, frames>>
  /\ UNCHANGED <<sessVars, audioVars>>
  /\ UNCHANGED dspVars
  /\ UNCHANGED recVars

\* raw = self.ser.read(chunk_size * 2) returns all the bytes asked for:
\* yield np.frombuffer(raw, dtype="<u2")
GenYield ==
  /\ pc = "body" /\ gen = "read"
  /\ Len(rxbuf) >= 2 * chunkSize
  /\ lastRead' = SubSeq(rxbuf, 1, 2 * chunkSize)
  /\ rxbuf' = SubSeq(rxbuf, 2 * chunkSize + 1, Len(rxbuf))
  /\ result' = FromBuffer(lastRead')
  /\ gen' = "yield" /\ written' = << >>
  /\ UNCHANGED <<err, lastCall, bpc, burstN, chunkSize, frames>>
  /\ UNCHANGED <<cmdq, wire, cmdlog, replylog, devAlive>>
  /\ UNCHANGED <<sessVars, audioVars>>
  /\ UNCHANGED dspVars
  /\ yielded' = Append(yielded, ChunkId(lastRead'))
  /\ UNCHANGED saved

\* Variant: a short read is decoded and yielded.
GenShortYield ==
  /\ pc = "body" /\ gen = "read"
  /\ Len(rxbuf) < 2 * chunkSize
  /\ lastRead' = rxbuf
  /\ rxbuf' = << >>
  /\ result' = FromBuffer(lastRead')
  /\ gen' = "yield" /\ written' = << >>
  /\ UNCHANGED <<err, lastCall, bpc, burstN, chunkSize, frames>>
  /\ UNCHANGED <<cmdq, wire, cmdlog, replylog, devAlive>>
  /\ UNCHANGED <<sessVars, audioVars>>
  /\ UNCHANGED dspVars
  /\ yielded' = Append(yielded, ChunkId(lastRead'))
  /\ UNCHANGED saved
\* Variant: a short read ends the generator.
GenShortStop ==
  /\ pc = "body" /\ gen = "read"
  /\ Len(rxbuf) < 2 * chunkSize
  /\ lastRead' = rxbuf
  /\ rxbuf' = << >>
  /\ gen' = "finished" /\ written' = << >>
  /\ UNCHANGED <<err, lastCall, bpc, burstN, chunkSize, result, frames>>
  /\ UNCHANGED <<cmdq, wire, cmdlog, replylog, devAlive>>
  /\ UNCHANGED <<sessVars, audioVars>>
  /\ UNCHANGED dspVars
  /\ UNCHANGED recVars
\* the read times out with fewer bytes: if len(raw) != chunk_size * 2: continue
GenShort ==
  /\ pc = "body" /\ gen = "read"
  /\ Len(rxbuf) < 2 * chunkSize
  /\ lastRead' = rxbuf
  /\ rxbuf' = << >>
  /\ gen' = "write" /\ written' = << >>
  /\ UNCHANGED <<err, lastCall, bpc, burstN, chunkSize, result, frames>>
  /\ UNCHANGED <<cmdq, wire, cmdlog, replylog, devAlive>>
  /\ UNCHANGED <<sessVars, audioVars>>
  /\ UNCHANGED dspVars
  /\ UNCHANGED recVars

\* ------------------------------------------------- capture_sweep_transfer
\* sd.play(wave, samplerate=fs_audio, blocking=False); start_time = time.time()
SdPlay ==
  /\ pc = "body" /\ prog = "sweep" /\ audio = "idle"
  /\ audio' = "active"
  /\ UNCHANGED <<timedOut, sessVars, callVars, linkVars>>
  /\ UNCHANGED dspVars
  /\ UNCHANGED recVars

\* the audio backend finishes the playback
AudioEnd ==
  /\ pc = "body" /\ audio = "active"
  /\ audio' = "done"
  /\ UNCHANGED <<timedOut, sessVars, callVars, linkVars>>
  /\ UNCHANGED dspVars
  /\ UNCHANGED recVars

\* more than duration + 2.0 seconds have passed since start_time
Timeout ==
  /\ pc = "body" /\ audio # "idle" /\ ~timedOut
  /\ timedOut' = TRUE
  /\ UNCHANGED <<audio, sessVars, callVars, linkVars>>
  /\ UNCHANGED dspVars
  /\ UNCHANGED recVars

\* Variant: the stop checks come first, and a break skips the append.
SweepLoopBodyCheckFirst ==
  /\ pc = "body" /\ prog = "sweep" /\ gen = "yield"
  /\ lastRead' = << >> /\ result' = << >>
  /\ IF audio # "active" \/ timedOut
     THEN /\ gen' = "closed"
          /\ Exit("break")
          /\ rxbuf' = MarkPre(rxbuf)
          /\ UNCHANGED frames
     ELSE /\ gen' = "write"
          /\ frames' = Append(frames, ChunkId(lastRead))
          /\ UNCHANGED <<sessVars, rxbuf>>
  /\ UNCHANGED <<err, lastCall, bpc, burstN, chunkSize, written>>
  /\ UNCHANGED <<cmdq, wire, cmdlog, replylog, devAlive>>
  /\ UNCHANGED audioVars
  /\ UNCHANGED dspVars
  /\ UNCHANGED recVars
\* one pass of the for loop body on a yielded chunk: frames.append(chunk),
\* then the two stop checks, then either break (which leaves the with-block)
\* or the next next()
SweepLoopBody ==
  /\ pc = "body" /\ prog = "sweep" /\ gen = "yield"
  /\ frames' = Append(frames, ChunkId(lastRead))
  /\ lastRead' = << >> /\ result' = << >>
  /\ IF audio # "active" \/ timedOut
     THEN /\ gen' = "closed"
          /\ Exit("break")
          /\ rxbuf' = MarkPre(rxbuf)
     ELSE /\ gen' = "write"
          /\ UNCHANGED <<sessVars, rxbuf>>
  /\ UNCHANGED <<err, lastCall, bpc, burstN, chunkSize, written>>
  /\ UNCHANGED <<cmdq, wire, cmdlog, replylog, devAlive>>
  /\ UNCHANGED audioVars
  /\ UNCHANGED dspVars
  /\ UNCHANGED recVars

\* ---------------------------------------------- capture_continuous_stream
\* A chunk of n samples, every sample named by the reply and position of its
\* first byte.
ChunkSamples(id, n) == [k \in 1..n |-> <<id[1], id[2] + 2 * (k - 1)>>]
\* np.concatenate(frames): the samples of the chunks, in list order
RECURSIVE NpConcatenate(_, _)
NpConcatenate(chunks, n) ==
  IF chunks = << >> THEN << >>
  ELSE ChunkSamples(Head(chunks), n) \o NpConcatenate(Tail(chunks), n)

\* one pass of the for loop body on a yielded chunk: frames.append(chunk_u16)
\* and the progress report, then the next next()
RecordLoopBody ==
  /\ pc = "body" /\ prog = "record" /\ gen = "yield"
  /\ frames' = Append(frames, ChunkId(lastRead))
  /\ lastRead' = << >> /\ result' = << >>
  /\ gen' = "write"
  /\ UNCHANGED <<err, lastCall, bpc, burstN, chunkSize, written>>
  /\ UNCHANGED <<sessVars, audioVars, linkVars>>
  /\ UNCHANGED dspVars
  /\ UNCHANGED recVars

\* Variant: the chunks are saved one file each.
SaveFramesEach(fr, n) == [k \in 1..Len(fr) |-> ChunkSamples(fr[k], n)]
\* if not frames: return; full_array = np.concatenate(frames);
\* io.save_signal(full_array, ...): the arrays saved by one return
SaveFrames(fr, n) == IF fr = << >> THEN << >> ELSE <<NpConcatenate(fr, n)>>

\* except KeyboardInterrupt: the interrupt that left the with-block is
\* handled, then the frames are saved and the function returns
RecordFinish ==
  /\ pc = "after" /\ prog = "record" /\ err = "KeyboardInterrupt"
  /\ err' = "none"
  /\ saved' = saved \o SaveFrames(frames, chunkSize)
  /\ UNCHANGED <<lastCall, bpc, burstN, gen, chunkSize, written, lastRead, result, frames>>
  /\ UNCHANGED <<sessVars, audioVars, linkVars>>
  /\ UNCHANGED dspVars
  /\ UNCHANGED yielded

Next ==
  \/ FwServe
  \/ \E k \in 1..Len(wire) : Deliver(k)
  \/ ConnectOpen
  \/ ConnectOpenFail
  \/ ConnectWait
  \/ ConnectDiscard
  \/ DisconnectAgain
  \/ KeyboardInterrupt
  \/ NewSession
  \/ \E n \in BurstArgs : CaptureBurstStart(n)
  \/ CaptureBurstReturn
  \/ CaptureBurstIncomplete
  \/ \E c \in ChunkArgs : StreamCall(c)
  \/ GenStart
  \/ GenWrite
  \/ GenYield
  \/ GenShort
  \/ SdPlay
  \/ AudioEnd
  \/ Timeout
  \/ SweepLoopBody

Spec == Init /\ [][Next]_vars

\* The capture loop is scheduled: a blocking read returns within the serial
\* timeout, and the host goes on to its next statement.  The device and the
\* keyboard are under no such obligation.
HostStep ==
  \/ GenStart
  \/ GenWrite
  \/ GenYield
  \/ GenShort
  \/ SweepLoopBody
FairSpec == Spec /\ WF_vars(HostStep)

\* capture_continuous_stream: one DAQInterface with every outcome of its
\* connect(), the streaming loop, and the save after the keyboard interrupt.
RecInit == SessionInit({"record"}) /\ dspIn = NoInput /\ dspOut = Pending
RecNext ==
  \/ FwServe
  \/ \E k \in 1..Len(wire) : Deliver(k)
  \/ ConnectOpen
  \/ ConnectOpenFail
  \/ ConnectWait
  \/ ConnectDiscard
  \/ ConnectDiscardFail
  \/ KeyboardInterrupt
  \/ \E c \in ChunkArgs : StreamCall(c)
  \/ GenStart
  \/ GenWrite
  \/ GenYield
  \/ GenShort
  \/ RecordLoopBody
  \/ RecordFinish
RecSpec == RecInit /\ [][RecNext]_vars

\* ===================================================== analysis functions
\* The functions of dsp.py, diagnostics.py, audio.py and metrics.py are pure:
\* one call is one step from its arguments (dspIn) to what it returns or
\* raises (dspOut).  The transport does not move while they are applied.
Returned(v) == [status |-> "returned", value |-> v]
Raised(e) == [status |-> "raised", error |-> e]
SeqsUpTo(S, n) == UNION {[1..k -> S] : k \in 0..n}
Apply(fn, out) ==
  /\ dspIn.fn = fn /\ dspOut = Pending
  /\ dspOut' = out
  /\ UNCHANGED <<dspIn, sessVars, callVars, audioVars, linkVars, recVars>>

\* ------------------------------------------------------- software_trigger
\* Longest signal given to software_trigger.
MaxTrigLen == 4
\* Sample values and thresholds, as small integers.
TrigValues == 0..2
TrigThresholds == {1, 2}
TrigInputs ==
  [fn : {"software_trigger"}, signal : SeqsUpTo(TrigValues, MaxTrigLen),
   threshold : TrigThresholds]

\* Variant: the array is rolled the other way.
NpRollOpposite(a, shift) ==
  [j \in 1..Len(a) |-> a[((j - 1 + shift + Len(a) * Len(a)) % Len(a)) + 1]]
\* np.roll(a, shift): the element at index i moves to index (i + shift) mod N
NpRoll(a, shift) ==
  [j \in 1..Len(a) |-> a[((j - 1 - shift + Len(a) * Len(a)) % Len(a)) + 1]]
\* np.where((signal[:-1] < threshold) & (signal[1:] >= threshold))[0]:
\* the 0-based indices i with signal[i] < threshold <= signal[i+1]
Crossings(signal, threshold) ==
  {i \in 0..(Len(signal) - 2) :
     signal[i + 1] < threshold /\ signal[i + 2] >= threshold}
Min(S) == CHOOSE x \in S : \A y \in S : x <= y
Max(S) == CHOOSE x \in S : \A y \in S : x >= y
\* Variant: the signal is rotated to its last rising crossing.
software_trigger_last(signal, threshold) ==
  LET crossings == Crossings(signal, threshold) IN
  IF crossings # {} THEN NpRoll(signal, 0 - Max(crossings)) ELSE signal
\* software_trigger: crossings[0] is the first crossing; np.roll by its negative
software_trigger(signal, threshold) ==
  LET crossings == Crossings(signal, threshold) IN
  IF crossings # {} THEN NpRoll(signal, 0 - Min(crossings)) ELSE signal
SoftwareTriggerCall ==
  Apply("software_trigger",
        Returned(software_trigger(dspIn.signal, dspIn.threshold)))

\* ---------------------------------------------------- estimate_fundamental
\* Largest number of spectrum bins given to estimate_fundamental.
MaxBins == 3
FreqValues == 0..3
MagValues == 0..2
Bands == {<<0, 1>>, <<1, 2>>, <<2, 2>>, <<3, 1>>}
FundInputs ==
  UNION {[fn : {"estimate_fundamental"}, freqs : [1..k -> FreqValues],
          mags : [1..k -> MagValues], band : Bands] : k \in 0..MaxBins}

\* a[mask]: the elements of a at which mask is true, in order
RECURSIVE BoolIndex(_, _)
BoolIndex(a, mask) ==
  IF a = << >> THEN << >>
  ELSE (IF Head(mask) THEN <<Head(a)>> ELSE << >>)
         \o BoolIndex(Tail(a), Tail(mask))
\* Variant: the index of the first smallest element.
NpArgmin(a) == Min({i \in 1..Len(a) : \A j \in 1..Len(a) : a[i] <= a[j]})
\* np.argmax(a): the index of the first largest element
NpArgmax(a) == Min({i \in 1..Len(a) : \A j \in 1..Len(a) : a[j] <= a[i]})
estimate_fundamental(freqs, mags, fmin, fmax) ==
  IF Len(freqs) = 0 THEN Returned(0)
  ELSE LET mask == [i \in 1..Len(freqs) |-> freqs[i] >= fmin /\ freqs[i] <= fmax] IN
       IF ~(\E i \in 1..Len(mask) : mask[i]) THEN Returned(0)
       ELSE LET f_subset == BoolIndex(freqs, mask)
                m_subset == BoolIndex(mags, mask)
                idx == NpArgmax(m_subset)
            IN Returned(f_subset[idx])
EstimateFundamentalCall ==
  Apply("estimate_fundamental",
        estimate_fundamental(dspIn.freqs, dspIn.mags, dspIn.band[1], dspIn.band[2]))

\* ------------------------------------------------------ check_signal_health
\* Voltages are in millivolts.  config.V_REF = 3.3 V:
V_REF_MV == 3300
\* Longest signal given to check_signal_health.
MaxHealthLen == 2
\* Voltages at and next to the rails and the thresholds, and pairs of them
\* 40, 49, 50 and 60 mV apart, inside and outside the bias band.
HealthValues ==
  {0, 20, 21, 1000, 1040, 1049, 1050, 1060, 1600, 1640, 1660, 3249, 3250, 3300}
PairValues == {21, 1000, 1040, 1600, 1640, 1660, 3250}
HealthInputs ==
  [fn : {"check_signal_health"}, voltages : SeqsUpTo(HealthValues, MaxHealthLen)]
HealthPairInputs ==
  [fn : {"check_signal_health twice"},
   voltages : SeqsUpTo(PairValues, MaxHealthLen) \ {<< >>},
   other : SeqsUpTo(PairValues, MaxHealthLen) \ {<< >>}]

RECURSIVE SumSeq(_)
SumSeq(a) == IF a = << >> THEN 0 ELSE Head(a) + SumSeq(Tail(a))
Range(a) == {a[i] : i \in 1..Len(a)}
\* Variant: only the upper rail counts as clipping.
IsClippingHighOnly(v_min, v_max) == v_max >= V_REF_MV - 50
\* Check A: v_min <= 0.02 or v_max >= (config.V_REF - 0.05)
IsClipping(v_min, v_max) == v_min <= 20 \/ v_max >= V_REF_MV - 50
\* Variant: a swing of exactly 0.05 V counts as weak.
IsWeakInclusive(v_pp) == v_pp <= 50
\* Check B: v_pp < 0.05
IsWeak(v_pp) == v_pp < 50
\* Check C: not (1.5 < v_mean < 1.8), with v_mean = total / n
BiasDrifting(total, n) == ~(1500 * n < total /\ total < 1800 * n)
\* Variant: a drifting bias makes the signal unhealthy.
HealthVerdictWithBias(clipping, weak, drifting) == ~clipping /\ ~weak /\ ~drifting
\* is_healthy: True unless check A or, else, check B set it to False
HealthVerdict(clipping, weak, drifting) == ~clipping /\ ~weak
\* check_signal_health(voltages): the verdict it returns and the warnings it
\* prints.  np.min of an empty array raises ValueError.
check_signal_health(voltages) ==
  IF voltages = << >> THEN Raised("ValueError")
  ELSE LET v_min == Min(Range(voltages))
           v_max == Max(Range(voltages))
           v_pp == v_max - v_min
           clipping == IsClipping(v_min, v_max)
           weak == ~clipping /\ IsWeak(v_pp)
           drifting == BiasDrifting(SumSeq(voltages), Len(voltages))
       IN [status |-> "returned",
           value |-> HealthVerdict(clipping, weak, drifting),
           clippingWarned |-> clipping, weakWarned |-> weak,
           driftNoted |-> drifting]
CheckSignalHealthCall ==
  Apply("check_signal_health", check_signal_health(dspIn.voltages))
\* Two independent calls, on voltages and on other.
CheckSignalHealthTwice ==
  Apply("check_signal_health twice",
        [status |-> "returned",
         first |-> check_signal_health(dspIn.voltages),
         second |-> check_signal_health(dspIn.other)])

\* ------------------------------------------------------ generate_log_sweep
\* Frequencies and the sampling rate are integers, the duration is in
\* tenths of a second.  The samples themselves are not computed: a returned
\* array is its number of samples.
SweepInputs ==
  [fn : {"generate_log_sweep"}, f_start : -1..2, f_end : 0..3,
   duration10 : {0, 5, 10, 15}, fs : {1, 3, 5}]
\* round(x) of Python 3 for x = x10 / 10: to the nearest integer, a tie to
\* the even one
PyRound10(x10) ==
  LET q == x10 \div 10
      r == x10 % 10
  IN IF r < 5 THEN q
     ELSE IF r > 5 THEN q + 1
     ELSE IF q % 2 = 0 THEN q ELSE q + 1
\* len(np.arange(n)): no element for n <= 0
ArangeLen(n) == IF n < 0 THEN 0 ELSE n
\* generate_log_sweep: the check of the frequencies, n = int(round(duration
\* * fs)), then R = (f_end / f_start) ** (1.0 / duration), which divides by
\* the duration, then the samples over t = np.arange(n) / fs
generate_log_sweep(f_start, f_end, duration10, fs) ==
  IF ~(0 < f_start /\ f_start < f_end) THEN Raised("ValueError")
  ELSE LET n == PyRound10(duration10 * fs) IN
       IF duration10 = 0 THEN Raised("ZeroDivisionError")
       ELSE Returned(ArangeLen(n))
GenerateLogSweepCall ==
  Apply("generate_log_sweep",
        generate_log_sweep(dspIn.f_start, dspIn.f_end, dspIn.duration10, dspIn.fs))

\* ----------------------------------------------------- generate_wave_block
\* Longest time vector given to generate_wave_block.
MaxBlockLen == 2
ShapeTags ==
  {"sine", "square", "saw", "triangle", "noise", "Sine", "pulse", ""}
WaveInputs ==
  [fn : {"generate_wave_block"}, shape : ShapeTags, tLen : 0..MaxBlockLen]
\* A block is the waveform law that produced it and its number of samples.
Block(law, n) == Returned([law |-> law, n |-> n])
\* Variant: an unknown tag gives a sine block.
generate_wave_block_defaulting(shape, tLen) ==
  IF shape \in {"square", "saw", "triangle", "noise"}
  THEN Block(shape, tLen) ELSE Block("sine", tLen)
\* generate_wave_block: the if / elif chain over the tag; the block has the
\* shape of t (np.random.uniform(size=t.shape[0]) for noise)
generate_wave_block(shape, tLen) ==
  IF shape = "sine" THEN Block("sine", tLen)
  ELSE IF shape = "square" THEN Block("square", tLen)
  ELSE IF shape = "saw" THEN Block("saw", tLen)
  ELSE IF shape = "triangle" THEN Block("triangle", tLen)
  ELSE IF shape = "noise" THEN Block("noise", tLen)
  ELSE Raised("ValueError")
GenerateWaveBlockCall ==
  Apply("generate_wave_block", generate_wave_block(dspIn.shape, dspIn.tLen))

\* ------------------------------------------------ compute_impulse_response
\* Longest captured response and longest inverse filter.
MaxRespLen == 3
MaxFilterLen == 2
RespValues == {-3, 0, 1, 2}
FilterValues == {-1, 0, 1}
\* generate_inverse_filter returns int(round(duration * fs)) weighted sweep
\* samples, normalised to a peak of 1; its samples are taken as given.
ImpulseInputs ==
  [fn : {"compute_impulse_response"},
   sig_dut : SeqsUpTo(RespValues, MaxRespLen) \ {<< >>},
   inv_filter : SeqsUpTo(FilterValues, MaxFilterLen) \ {<< >>}]

Abs(x) == IF x < 0 THEN 0 - x ELSE x
RECURSIVE SumOver(_, _)
SumOver(f, S) ==
  IF S = {} THEN 0
  ELSE LET k == CHOOSE x \in S : TRUE IN f[k] + SumOver(f, S \ {k})
\* spsig.fftconvolve(a, b, mode="full"): the full discrete convolution,
\* len(a) + len(b) - 1 samples, sample n the sum of a[k] * b[n - k]
FftConvolveFull(a, b) ==
  [n \in 1..(Len(a) + Len(b) - 1) |->
     LET ks == {k \in 1..Len(a) : n + 1 - k \in 1..Len(b)}
     IN SumOver([k \in ks |-> a[k] * b[n + 1 - k]], ks)]
\* Variant: the whole buffer is searched.
SearchStartWhole(n) == 0
\* search_start = len(ir_raw) // 2
SearchStart(n) == n \div 2
\* ir_raw[search_start:] as a sequence, and np.abs of a sequence
SliceFrom(a, start) == [i \in 1..(Len(a) - start) |-> a[start + i]]
NpAbs(a) == [i \in 1..Len(a) |-> Abs(a[i])]
\* compute_impulse_response: indices are 0-based as in the source
compute_impulse_response(sig_dut, inv_filter) ==
  LET ir_raw == FftConvolveFull(sig_dut, inv_filter)
      search_start == SearchStart(Len(ir_raw))
      peak_idx_local == NpArgmax(NpAbs(SliceFrom(ir_raw, search_start))) - 1
      peak_idx == search_start + peak_idx_local
  IN Returned([ir |-> ir_raw, peak_idx |-> peak_idx])
ComputeImpulseResponseCall ==
  Apply("compute_impulse_response",
        compute_impulse_response(dspIn.sig_dut, dspIn.inv_filter))

\* -------------------------------------------------------- compute_bode_data
\* Sampling rates in Hz and response lengths given to compute_bode_data.
BodeRates == {1, 19, 20, 499, 500, 1000}
BodeRespLens == {1, 2, 50}
\* DURATION = 5.0: the inverse filter has int(round(DURATION * fs)) samples.
BodeFilterLen(fs) == PyRound10(50 * fs)
BodeIrLen(respLen, fs) == respLen + BodeFilterLen(fs) - 1
\* The peak index compute_impulse_response returns lies in the second half
\* of the impulse response; the ends of that range are tried.
BodePeaks(L) ==
  {p \in {L \div 2, (L \div 2) + 1, L - 2, L - 1} : L \div 2 <= p /\ p < L}
BodeInputs ==
  UNION {[fn : {"compute_bode_data"}, fs : {fs}, respLen : {n},
          peak_idx : BodePeaks(BodeIrLen(n, fs))] :
         <<fs, n>> \in BodeRates \X BodeRespLens}
\* pre_samples = int((pre_window_ms / 1000) * fs), pre_window_ms = 2.0
PreSamples(fs) == (2 * fs) \div 1000
\* post_samples = int((post_window_ms / 1000) * fs), post_window_ms = 50.0
PostSamples(fs) == (50 * fs) \div 1000
\* compute_bode_data, as far as the impulse slice and its time axis: start,
\* end, the number of samples of ir[start:end], and zeroAt, the slice index
\* k at which t_ir[k] = (k - pre_samples) / fs * 1000 is 0.  An empty slice
\* reaches np.fft.rfft in compute_spectrum, which raises ValueError.
compute_bode_data(respLen, fs, peak_idx) ==
  LET L == BodeIrLen(respLen, fs)
      pre_samples == PreSamples(fs)
      post_samples == PostSamples(fs)
      start == IF peak_idx - pre_samples > 0 THEN peak_idx - pre_samples ELSE 0
      end == IF peak_idx + post_samples < L THEN peak_idx + post_samples ELSE L
      n == IF end > start THEN end - start ELSE 0
  IN IF n = 0 THEN Raised("ValueError")
     ELSE Returned([start |-> start, end |-> end, n |-> n, zeroAt |-> pre_samples])
ComputeBodeDataCall ==
  Apply("compute_bode_data",
        compute_bode_data(dspIn.respLen, dspIn.fs, dspIn.peak_idx))

\* --------------------------------------------------------- compute_spectrum
\* Longest signal given to compute_spectrum.
MaxSpecLen == 5
SpecRates == {1, 2, 10}
SpectrumInputs ==
  [fn : {"compute_spectrum"}, signal : SeqsUpTo({0, 1}, MaxSpecLen),
   fs : SpecRates]
\* A frequency is the exact fraction num / den.
Frac(num, den) == [num |-> num, den |-> den]
\* Variant: the sample spacing is taken to be fs.
SampleSpacingIsRate(fs) == Frac(fs, 1)
\* d = 1.0 / fs
SampleSpacing(fs) == Frac(1, fs)
\* len(np.fft.rfft(x)) for len(x) = n: n // 2 + 1 bins
RfftLen(n) == n \div 2 + 1
\* np.fft.rfftfreq(n, d): bin k (0-based) is k / (n * d)
Rfftfreq(n, d) ==
  [i \in 1..(n \div 2 + 1) |-> Frac((i - 1) * d.den, n * d.num)]
\* compute_spectrum: the magnitudes are not computed, fft_mag is its length.
\* np.fft.rfft of an empty array raises ValueError.
compute_spectrum(signal, fs) ==
  LET n == Len(signal) IN
  IF n = 0 THEN Raised("ValueError")
  ELSE Returned([freq_axis |-> Rfftfreq(n, SampleSpacing(fs)),
                 fft_mag_len |-> RfftLen(n)])
ComputeSpectrumCall ==
  Apply("compute_spectrum", compute_spectrum(dspIn.signal, dspIn.fs))

\* ------------------------------------------------------------ raw_to_volts
ADC_MAX_VAL == 65535
\* Longest raw array given to raw_to_volts.
MaxRawLen == 2
\* Raw ADC integers: both ends of the range, their neighbours and mid-scale.
RawValues == {0, 1, 32767, 32768, ADC_MAX_VAL - 1, ADC_MAX_VAL}
RawInputs == [fn : {"raw_to_volts"}, raw_data : SeqsUpTo(RawValues, MaxRawLen)]
\* A voltage in millivolts as the exact mixed number whole + rem / den.
Mixed(num, den) == [whole |-> num \div den, rem |-> num % den, den |-> den]
\* Variant: the raw value is divided by the number of ADC codes, 2^ADC_BITS.
ScaleRawByCodes(raw) == Mixed(raw * V_REF_MV, ADC_MAX_VAL + 1)
\* (raw / config.ADC_MAX_VAL) * config.V_REF for one element, in millivolts.
ScaleRaw(raw) == Mixed(raw * V_REF_MV, ADC_MAX_VAL)
\* raw_to_volts: the scaling is applied to every element of the array.
raw_to_volts(raw_data) ==
  Returned([i \in 1..Len(raw_data) |-> ScaleRaw(raw_data[i])])
RawToVoltsCall == Apply("raw_to_volts", raw_to_volts(dspIn.raw_data))

\* ----------------------------------------------------- harmonic extraction
\* The harmonic functions read a signal only through compute_spectrum. A
\* signal is given here by its length n and by the magnitudes of its n//2 + 1
\* spectrum bins; the bin frequencies are computed from n and fs. All-zero
\* magnitudes are the spectrum of silence.
HarmRates == {72}
HarmLens == {2, 4, 6}
HarmMags == 0..2
Fundamentals == {12, 18}
HarmCounts == {0, 1, 2, 4}
SignalsOver(lens, mags) ==
  UNION {[n : {n}, mags : [1..RfftLen(n) -> mags]] : n \in lens}
HarmonicsInputs ==
  [fn : {"extract_harmonics_list"}, signal : SignalsOver(HarmLens, HarmMags),
   fs : HarmRates, fundamental_freq : Fundamentals, n_harmonics : HarmCounts]
ComparisonInputs ==
  [fn : {"compute_spectral_comparison"},
   sig_clean : SignalsOver(HarmLens, {0, 1}),
   sig_dirty : SignalsOver(HarmLens, {0, 1}),
   fs : HarmRates, fundamental : Fundamentals]
\* freqs, mags = dsp.compute_spectrum(signal, fs)
SpectrumOf(signal, fs) ==
  [freqs |-> Rfftfreq(signal.n, SampleSpacing(fs)), mags |-> signal.mags]
\* (freqs > target - window) & (freqs < target + window)
WindowMask(freqs, target, window) ==
  [i \in 1..Len(freqs) |->
     /\ freqs[i].num > (target - window) * freqs[i].den
     /\ freqs[i].num < (target + window) * freqs[i].den]
NpAny(mask) == \E i \in 1..Len(mask) : mask[i]
NpMax(a) == Max(Range(a))
\* a / b on numpy floats, a >= 0 and b >= 0: a zero divisor does not raise,
\* the quotient is nan for 0 / 0 and inf otherwise.
NaN == [num |-> 0, den |-> 0]
Inf == [num |-> 1, den |-> 0]
NpTrueDivide(a, b) ==
  IF b = 0 THEN (IF a = 0 THEN NaN ELSE Inf) ELSE Frac(a, b)
NoneValue == [kind |-> "None"]
DataFrame(rows) == [kind |-> "DataFrame", rows |-> rows]
extract_harmonics_list(signal, fs, fundamental_freq, n_harmonics) ==
  LET sp == SpectrumOf(signal, fs)
      window == 10
      fund_mask == WindowMask(sp.freqs, fundamental_freq, window)
  IN IF ~NpAny(fund_mask) THEN NoneValue
     ELSE
       LET fund_mag == NpMax(BoolIndex(sp.mags, fund_mask)) IN
       DataFrame(
         [i \in 1..n_harmonics |->
            LET target_f == fundamental_freq * i
                mask == WindowMask(sp.freqs, target_f, window)
                mag == IF NpAny(mask) THEN NpMax(BoolIndex(sp.mags, mask))
                       ELSE 0
            IN [Harmonic |-> i, Order |-> i,
                Magnitude |-> NpTrueDivide(mag, fund_mag),
                Type |-> IF i % 2 = 0 THEN "Even" ELSE "Odd"]])
ExtractHarmonicsListCall ==
  Apply("extract_harmonics_list",
        Returned(extract_harmonics_list(dspIn.signal, dspIn.fs,
                                        dspIn.fundamental_freq,
                                        dspIn.n_harmonics)))
\* df["Signal"] = label
WithSignal(df, label) ==
  [i \in 1..Len(df.rows) |->
     [Harmonic |-> df.rows[i].Harmonic, Order |-> df.rows[i].Order,
      Magnitude |-> df.rows[i].Magnitude, Type |-> df.rows[i].Type,
      Signal |-> label]]
compute_spectral_comparison(sig_clean, sig_dirty, fs, fundamental) ==
  LET df_c == extract_harmonics_list(sig_clean, fs, fundamental, 6)
      df_d == extract_harmonics_list(sig_dirty, fs, fundamental, 6)
  IN IF df_c = NoneValue \/ df_d = NoneValue THEN NoneValue
     ELSE DataFrame(WithSignal(df_c, "Clean Input")
                      \o WithSignal(df_d, "Red Llama"))
ComputeSpectralComparisonCall ==
  Apply("compute_spectral_comparison",
        Returned(compute_spectral_comparison(dspIn.sig_clean, dspIn.sig_dirty,
                                             dspIn.fs, dspIn.fundamental)))

\* -------------------------------------------------- calculate_selective_thd
ThdInputs ==
  [fn : {"calculate_selective_thd"}, signal : SignalsOver({4, 6}, HarmMags),
   fs : HarmRates, fundamental_freq : Fundamentals, n_harmonics : {1, 2, 4}]
AddFrac(a, b) == Frac(a.num * b.den + b.num * a.den, a.den * b.den)
\* np.mean(a) for a non-empty a
NpMean(a) == Frac(SumSeq(a), Len(a))
\* The noise estimate of one harmonic: the mean magnitude of the bins within
\* 3 * window of target_f and outside the peak window, 0 if there is none.
LocalNoise(sp, target_f, window) ==
  LET mask == WindowMask(sp.freqs, target_f, window)
      wide == WindowMask(sp.freqs, target_f, window * 3)
      noise_mask == [k \in 1..Len(mask) |-> wide[k] /\ ~mask[k]]
  IN IF NpAny(noise_mask) THEN NpMean(BoolIndex(sp.mags, noise_mask))
     ELSE Frac(0, 1)
\* What one pass of the loop adds to harmonic_sum_sq: h_mag ** 2 when a bin is
\* in the window and h_mag = max(0.0, peak - local_noise) is positive.
HarmonicTerm(sp, target_f, window) ==
  LET mask == WindowMask(sp.freqs, target_f, window) IN
  IF ~NpAny(mask) THEN Frac(0, 1)
  ELSE LET local_noise == LocalNoise(sp, target_f, window)
           peak == NpMax(BoolIndex(sp.mags, mask))
           diff == peak * local_noise.den - local_noise.num
           h_mag == Frac(IF diff > 0 THEN diff ELSE 0, local_noise.den)
       IN IF h_mag.num > 0
          THEN Frac(h_mag.num * h_mag.num, h_mag.den * h_mag.den)
          ELSE Frac(0, 1)
\* for i in range(2, n_harmonics + 1): harmonic_sum_sq after the passes i..n
RECURSIVE HarmonicLoop(_, _, _, _, _, _)
HarmonicLoop(sp, fundamental_freq, window, i, n_harmonics, harmonic_sum_sq) ==
  IF i > n_harmonics THEN harmonic_sum_sq
  ELSE HarmonicLoop(sp, fundamental_freq, window, i + 1, n_harmonics,
                    AddFrac(harmonic_sum_sq,
                            HarmonicTerm(sp, fundamental_freq * i, window)))
\* (np.sqrt(harmonic_sum_sq) / fund_mag) * 100, kept as the exact square of
\* thd_pct / 100; the numpy division by a zero fund_mag gives nan or inf.
ThdPct(harmonic_sum_sq, fund_mag) ==
  IF fund_mag = 0 THEN (IF harmonic_sum_sq.num = 0 THEN NaN ELSE Inf)
  ELSE Frac(harmonic_sum_sq.num, harmonic_sum_sq.den * fund_mag * fund_mag)
calculate_selective_thd(signal, fs, fundamental_freq, n_harmonics) ==
  LET sp == SpectrumOf(signal, fs)
      window == 5
      fund_mask == WindowMask(sp.freqs, fundamental_freq, window)
  IN IF ~NpAny(fund_mask) THEN Frac(0, 1)
     ELSE LET fund_mag == NpMax(BoolIndex(sp.mags, fund_mask))
              harmonic_sum_sq ==
                HarmonicLoop(sp, fundamental_freq, window, 2, n_harmonics,
                             Frac(0, 1))
          IN ThdPct(harmonic_sum_sq, fund_mag)
CalculateSelectiveThdCall ==
  Apply("calculate_selective_thd",
        Returned(calculate_selective_thd(dspIn.signal, dspIn.fs,
                                         dspIn.fundamental_freq,
                                         dspIn.n_harmonics)))

\* -------------------------------------------------------------- load_signal
\* The file at filepath: absent, or an .npz archive with some of the keys
\* "signal", "data" and "fs"; ndim is the number of dimensions of its array.
LoadInputs ==
  [fn : {"load_signal"}, exists : BOOLEAN,
   keys : SUBSET {"signal", "data", "fs"}, ndim : {1, 2}]
\* except FileNotFoundError: print(...); sys.exit(1). sys.exit raises
\* SystemExit(1), which ends the interpreter with status 1 unless a caller
\* catches SystemExit by name; it is not an Exception.
OnFileNotFound == Raised("SystemExit")
load_signal(exists, keys, ndim) ==
  IF ~exists THEN OnFileNotFound
  ELSE IF "signal" \in keys
         THEN Returned([sig |-> "signal", ndim |-> ndim,
                        fs |-> IF "fs" \in keys THEN "fs" ELSE "97812.0"])
       ELSE IF "data" \in keys
         THEN Returned([sig |-> "data", ndim |-> 1,
                        fs |-> IF "fs" \in keys THEN "fs" ELSE "97812.0"])
       ELSE Raised("KeyError")
LoadSignalCall ==
  Apply("load_signal", load_signal(dspIn.exists, dspIn.keys, dspIn.ndim))

\* ----------------------------------------------------- ContinuousOscillator
\* Number of audio callbacks followed, and largest frame count of a callback.
MaxCallbacks == 3
MaxFrames == 2
OscInputs ==
  [fn : {"ContinuousOscillator"}, shape : {"sine", "square", "pulse"},
   auto_start : BOOLEAN]
\* The oscillator object: _start_idx, the state of _stream ("none" is None,
\* "stopped", "active", "aborted", "closed"), and every block its callback
\* wrote to outdata: the sample indices of its time vector t * fs and the
\* waveform law.
Oscillator(start_idx, stream, blocks) ==
  [status |-> "object", _start_idx |-> start_idx, _stream |-> stream,
   blocks |-> blocks]
\* Variant: the index restarts at the end of the block just written.
StartIdxRestart(start_idx, nframes) == nframes
\* self._start_idx += frames
StartIdxAdvance(start_idx, nframes) == start_idx + nframes
\* __init__: self._stream = None; self._start_idx = 0
OscNew == Apply("ContinuousOscillator", Oscillator(0, "none", << >>))
OscStep(next) ==
  /\ dspIn.fn = "ContinuousOscillator" /\ dspOut # Pending
  /\ dspOut' = next
  /\ UNCHANGED <<dspIn, sessVars, callVars, audioVars, linkVars, recVars>>
\* __enter__: a new sd.OutputStream, started by play() if auto_start
OscEnter ==
  /\ dspOut # Pending /\ dspOut.status = "object"
  /\ dspOut._stream \in {"none", "closed"}
  /\ OscStep([dspOut EXCEPT !._stream =
                IF dspIn.auto_start THEN "active" ELSE "stopped"])
\* play(): if self._stream and self._stream.stopped: self._stream.start()
OscPlay ==
  /\ dspOut # Pending /\ dspOut.status = "object"
  /\ dspOut._stream = "stopped"
  /\ OscStep([dspOut EXCEPT !._stream = "active"])
\* _callback(outdata, frames, time_info, status) with frames = nframes, called by the audio backend
\* while the stream is active: t = (self._start_idx + np.arange(frames)) / fs,
\* x = generate_wave_block(shape, t, freq, amp), outdata[:, 0] = x, then the
\* index advances.  An unknown shape makes generate_wave_block raise before
\* anything is written; the backend then aborts the stream.
OscCallback(nframes) ==
  /\ dspOut # Pending /\ dspOut.status = "object"
  /\ dspOut._stream = "active"
  /\ Len(dspOut.blocks) < MaxCallbacks
  /\ LET t == [i \in 1..nframes |-> dspOut._start_idx + (i - 1)]
         x == generate_wave_block(dspIn.shape, Len(t))
     IN IF x.status = "raised"
        THEN OscStep([dspOut EXCEPT !._stream = "aborted"])
        ELSE OscStep(Oscillator(StartIdxAdvance(dspOut._start_idx, nframes),
                                dspOut._stream,
                                Append(dspOut.blocks,
                                       [frames |-> nframes, t |-> t,
                                        law |-> x.value.law])))
\* __exit__: self._stream.stop(); self._stream.close()
OscExit ==
  /\ dspOut # Pending /\ dspOut.status = "object"
  /\ dspOut._stream \in {"stopped", "active", "aborted"}
  /\ OscStep([dspOut EXCEPT !._stream = "closed"])

\* ------------------------------------------------ software_trigger, twice
\* software_trigger applied to its own result with the same threshold:
\* y = software_trigger(x, th); z = software_trigger(y, th)
TrigTwiceInputs ==
  [fn : {"software_trigger twice"}, signal : SeqsUpTo(TrigValues, MaxTrigLen),
   threshold : TrigThresholds]
SoftwareTriggerTwice ==
  LET y == software_trigger(dspIn.signal, dspIn.threshold)
      z == software_trigger(y, dspIn.threshold)
  IN Apply("software_trigger twice", Returned([once |-> y, twice |-> z]))

\* ------------------------------------------------- applying the functions
\* Every call the analysis is checked for: the function and its arguments.
DspInputs ==
  TrigInputs
  \cup FundInputs
  \cup HealthInputs \cup HealthPairInputs
  \cup SweepInputs \cup WaveInputs
  \cup ImpulseInputs
  \cup BodeInputs
  \cup SpectrumInputs
  \cup RawInputs
  \cup HarmonicsInputs \cup ComparisonInputs
  \cup ThdInputs
  \cup LoadInputs
  \cup OscInputs
  \cup TrigTwiceInputs
DspInit ==
  /\ TransportInit /\ prog = "burst"
  /\ dspIn \in DspInputs /\ dspOut = Pending
DspNext ==
  \/ SoftwareTriggerCall
  \/ EstimateFundamentalCall
  \/ CheckSignalHealthCall
  \/ CheckSignalHealthTwice
  \/ GenerateLogSweepCall
  \/ GenerateWaveBlockCall
  \/ ComputeImpulseResponseCall
  \/ ComputeBodeDataCall
  \/ ComputeSpectrumCall
  \/ RawToVoltsCall
  \/ ExtractHarmonicsListCall
  \/ ComputeSpectralComparisonCall
  \/ CalculateSelectiveThdCall
  \/ LoadSignalCall
  \/ OscNew
  \/ OscEnter
  \/ OscPlay
  \/ \E nframes \in 1..MaxFrames : OscCallback(nframes)
  \/ OscExit
  \/ SoftwareTriggerTwice
DspSpec == DspInit /\ [][DspNext]_vars

\* ================================================================== claims
\* The bytes `raw` are one whole device reply to one 'v' command.
OneWholeReply(raw) ==
  /\ raw # << >>
  /\ raw[1].rid \in 1..Len(replylog)
  /\ replylog[raw[1].rid].cmd = "v"
  /\ Len(raw) = replylog[raw[1].rid].bytes
  /\ \A i \in 1..Len(raw) : raw[i].rid = raw[1].rid /\ raw[i].pos = i

\* C1: every chunk stream_generator yields is exactly the 2*chunk_size bytes
\* of one single device reply to one 'v' command, never bytes of two replies
\* and never a torn frame, whatever the replies and the read timeouts were.
C1_FramingNeverDrifts ==
  gen = "yield" => Len(lastRead) = 2 * chunkSize /\ OneWholeReply(lastRead)

\* C2: a yielded chunk has exactly chunk_size samples, decoded little-endian
\* from a read that returned exactly 2*chunk_size bytes; after a short read
\* nothing is yielded and nothing is raised, and the generator stands before
\* a fresh 'v' command and a new read.
C2_NoPartialData ==
  /\ gen = "yield" =>
       /\ Len(lastRead) = 2 * chunkSize
       /\ Len(result) = chunkSize
       /\ \A k \in 1..chunkSize :
            result[k] = lastRead[2 * k - 1].val + 256 * lastRead[2 * k].val
  /\ (pc = "body" /\ prog = "sweep" /\ gen # "yield") =>
       result = << >> /\ err = "none"
  /\ (pc = "body" /\ prog = "sweep" /\ lastRead # << >>
        /\ Len(lastRead) < 2 * chunkSize) =>
       gen = "write" /\ written = << >>
C2_Witness ==
  /\ gen = "yield" /\ frames = << >> /\ Len(cmdlog) >= 2
  /\ Len(result) = chunkSize

\* C3: capture_burst(n) writes exactly one 's' and reads once: a read of
\* exactly 2n bytes is returned as n little-endian uint16 values in arrival
\* order (the samples the device captured, when the reply arrived whole); a
\* shorter read raises IOError, returns no array, and is not retried.
C3_BurstExactOrError ==
  /\ bpc = "read" => written = <<"s">>
  /\ bpc = "returned" =>
       /\ written = <<"s">>
       /\ Len(lastRead) = 2 * burstN
       /\ Len(result) = burstN
       /\ \A k \in 1..burstN :
            result[k] = lastRead[2 * k - 1].val + 256 * lastRead[2 * k].val
       /\ (\A i \in 1..(2 * burstN) :
             lastRead[i].rid = lastRead[1].rid /\ lastRead[i].pos = i) =>
            \A k \in 1..burstN : result[k] = AdcRead(lastRead[1].rid, k)
  /\ (bpc = "raised" /\ bodyEnd = "exception") =>
       /\ written = <<"s">>
       /\ Len(lastRead) < 2 * burstN
       /\ result = << >>
  /\ (prog = "burst" /\ bodyEnd = "normal") => bpc = "returned"
C3_Witness ==
  /\ bpc = "raised" /\ bodyEnd = "exception" /\ err = "IOError"
  /\ burstN = Units(BURST_SAMPLES)
  /\ Len(lastRead) = 2 * burstN - 1

\* C4: capture_burst and stream_generator called on a session that is not
\* connected fail with an error at the call.
C4_FailsAtTheCall ==
  (lastCall.op \in {"capture_burst", "stream_generator"} /\ ~lastCall.connected)
    => lastCall.raised # "none"

C6_ClosedExactlyOnce ==
  /\ \A h \in Handles : closeCalls[h] <= 1
  /\ (pc = "after" /\ entered) => closeCalls[ser] = 1
  /\ (pc \in {"opened", "waited", "body"}) => closeCalls[ser] = 0 /\ isOpen[ser]
  /\ lastCall.op = "disconnect" => lastCall.raised = "none"
C6_Witness ==
  /\ lastCall.op = "disconnect" /\ ~lastCall.connected
  /\ entered /\ bodyEnd = "break" /\ closeCalls[ser] = 1

\* C7: connect() opens the channel, waits, then discards the input buffer
\* and only then returns: in the body no byte is buffered that was buffered
\* before connect() returned, and none is ever decoded by capture_burst or
\* yielded by stream_generator.  A failure to open is reported as IOError.
C7_StaleInputDiscarded ==
  /\ pc \in {"opened", "waited"} => ser = session /\ isOpen[ser] /\ ~entered
  /\ pc = "body" => \A i \in 1..Len(rxbuf) : ~rxbuf[i].pre
  /\ (gen = "yield" \/ bpc = "returned") =>
       \A i \in 1..Len(lastRead) : ~lastRead[i].pre
  /\ (pc = "after" /\ ~entered /\ lastCall = NoCall) => err = "IOError" /\ ser = 0
C7_Witness ==
  /\ pc = "body" /\ lastCall.op = "connect" /\ lastCall.dropped > 0
  /\ rxbuf = << >>

\* C8: stream_generator never finishes and never raises because of a short
\* read, whatever the device does; it writes exactly one 'v' before each
\* read; only the consumer (break, keyboard interrupt) ends the stream.
C8_NeverTerminatesItself ==
  /\ gen # "finished"
  /\ gen = "raised" => err \in {"AttributeError", "PortNotOpenError"} /\ ~Connected
  /\ gen = "read" => written = <<"v">>
  /\ gen \in {"write", "yield"} => written = << >>
  /\ (gen = "closed" /\ pc = "after") => bodyEnd \in {"break", "interrupt"}
C8_Witness ==
  /\ gen = "read" /\ frames = << >>
  /\ Len(cmdlog) = MaxCmds /\ ~devAlive /\ rxbuf = << >> /\ wire = << >>

\* C9: the device answers every 's' with BURST_SAMPLES*2 bytes and every 'v'
\* with LIVE_SAMPLES*2 bytes, one reply per command in command order: the
\* byte counts the host reads by default are the device's reply lengths.
HostExpectedBytes(cmd) ==
  IF cmd = "s" THEN 2 * Units(BURST_SAMPLES) ELSE 2 * Units(LIVE_SAMPLES)
C9_WireProtocolAgrees ==
  /\ Len(replylog) + Len(cmdq) <= Len(cmdlog)
  /\ \A i \in 1..Len(replylog) :
       /\ replylog[i].cmd = cmdlog[i]
       /\ replylog[i].bytes = HostExpectedBytes(cmdlog[i])
  /\ \A i \in 1..Len(wire) :
       /\ wire[i].rid \in 1..Len(replylog)
       /\ wire[i].pos \in 1..HostExpectedBytes(cmdlog[wire[i].rid])
C9_Witness ==
  /\ Len(replylog) >= 2
  /\ \E i, j \in 1..Len(replylog) : replylog[i].cmd = "s" /\ replylog[j].cmd = "v"

\* C10: in capture_sweep_transfer, once the playback is no longer active or
\* the timeout has passed, the loop eventually breaks and the session is
\* disconnected.
C10_SweepEventuallyStops ==
  (pc = "body" /\ prog = "sweep" /\ gen \in {"write", "read", "yield"}
     /\ (audio = "done" \/ timedOut))
    ~> (pc = "after" /\ ~Connected)

\* C11: for a signal of length N >= 2, software_trigger returns the signal
\* rotated so that the first index i with signal[i] < threshold <=
\* signal[i+1] comes first: r[k] = signal[(i+k) mod N], same length, same
\* multiset of values, r[0] < threshold <= r[1]; without such an index it
\* returns the signal unchanged.
CountOf(a, v) == Cardinality({k \in 1..Len(a) : a[k] = v})
C11_TriggerIsFirstCrossingRotation ==
  (dspIn.fn = "software_trigger" /\ dspOut # Pending /\ Len(dspIn.signal) >= 2) =>
    LET x == dspIn.signal
        th == dspIn.threshold
        N == Len(x)
        r == dspOut.value
        Rising(i) == x[i + 1] < th /\ th <= x[i + 2]
    IN /\ dspOut.status = "returned"
       /\ Len(r) = N
       /\ \A v \in TrigValues : CountOf(r, v) = CountOf(x, v)
       /\ \A i \in 0..(N - 2) :
            (Rising(i) /\ \A j \in 0..(i - 1) : ~Rising(j)) =>
              /\ \A k \in 0..(N - 1) : r[k + 1] = x[((i + k) % N) + 1]
              /\ r[1] < th /\ th <= r[2]
       /\ (\A i \in 0..(N - 2) : ~Rising(i)) => r = x
C11_Witness ==
  /\ dspIn.fn = "software_trigger" /\ dspOut # Pending
  /\ dspIn.signal = <<2, 0, 1, 0>> /\ dspIn.threshold = 1
  /\ dspOut.value = <<0, 1, 0, 2>>

\* C12: estimate_fundamental returns 0.0 when freqs is empty or no bin lies
\* in [fmin, fmax] (bounds inclusive); otherwise it returns the frequency of
\* a bin inside [fmin, fmax] such that no bin inside [fmin, fmax] has a
\* strictly larger magnitude.
C12_FundamentalIsBandMaximum ==
  (dspIn.fn = "estimate_fundamental" /\ dspOut # Pending) =>
    LET freqs == dspIn.freqs
        mags == dspIn.mags
        InBand == {i \in 1..Len(freqs) :
                     dspIn.band[1] <= freqs[i] /\ freqs[i] <= dspIn.band[2]}
    IN /\ dspOut.status = "returned"
       /\ InBand = {} => dspOut.value = 0
       /\ InBand # {} =>
            \E i \in InBand :
              /\ dspOut.value = freqs[i]
              /\ \A j \in InBand : ~(mags[j] > mags[i])
C12_Witness ==
  /\ dspIn.fn = "estimate_fundamental" /\ dspOut # Pending
  /\ dspIn.freqs = <<1, 2, 3>> /\ dspIn.mags = <<0, 1, 2>>
  /\ dspIn.band = <<1, 2>>
  /\ dspOut.value = 2

HealthClass(v) ==
  LET lo == CHOOSE x \in Range(v) : \A y \in Range(v) : x <= y
      hi == CHOOSE x \in Range(v) : \A y \in Range(v) : x >= y
  IN IF lo <= 20 \/ hi >= 3300 - 50 THEN "clipping"
     ELSE IF hi - lo < 50 THEN "weak" ELSE "neither"
MeanInBand(v) == 1500 * Len(v) < SumSeq(v) /\ SumSeq(v) < 1800 * Len(v)
C16_SweepValidatesAndSizes ==
  (dspIn.fn = "generate_log_sweep" /\ dspOut # Pending) =>
    IF 0 < dspIn.f_start /\ dspIn.f_start < dspIn.f_end
    THEN /\ dspOut.status = "returned"
         /\ dspOut.value = PyRound10(dspIn.duration10 * dspIn.fs)
    ELSE dspOut = Raised("ValueError")

\* C17: generate_wave_block accepts exactly the tags sine, square, saw,
\* triangle and noise: for each it returns one block of that shape with as
\* many samples as the time vector; for any other tag it raises ValueError
\* and returns no block.
C17_ShapeTagsExact ==
  (dspIn.fn = "generate_wave_block" /\ dspOut # Pending) =>
    IF dspIn.shape \in {"sine", "square", "saw", "triangle", "noise"}
    THEN /\ dspOut.status = "returned"
         /\ dspOut.value.n = dspIn.tLen
         /\ dspOut.value.law = dspIn.shape
    ELSE dspOut = Raised("ValueError")
C17_Witness ==
  /\ dspIn.fn = "generate_wave_block" /\ dspIn.shape = "Sine"
  /\ dspOut = Raised("ValueError")

\* C18: compute_impulse_response returns ir of length len(response) +
\* len(inverse filter) - 1 and a peak index p with len(ir)//2 <= p < len(ir)
\* and |ir[p]| >= |ir[j]| for every j in [len(ir)//2, len(ir)); p is the
\* first such index of the second half, so the samples before len(ir)//2 do
\* not influence it, however large they are.
C18_PeakInSecondHalf ==
  (dspIn.fn = "compute_impulse_response" /\ dspOut # Pending) =>
    LET ir == dspOut.value.ir
        p == dspOut.value.peak_idx
        L == Len(ir)
        Mag(j) == IF ir[j + 1] < 0 THEN 0 - ir[j + 1] ELSE ir[j + 1]
    IN /\ dspOut.status = "returned"
       /\ L = Len(dspIn.sig_dut) + Len(dspIn.inv_filter) - 1
       /\ L \div 2 <= p /\ p < L
       /\ \A j \in (L \div 2)..(L - 1) : Mag(p) >= Mag(j)
       /\ \A j \in (L \div 2)..(p - 1) : Mag(j) < Mag(p)
C18_Witness ==
  /\ dspIn.fn = "compute_impulse_response" /\ dspOut # Pending
  /\ dspIn.sig_dut = <<-3, 1, 2>> /\ dspIn.inv_filter = <<1, -1>>
  /\ dspOut.value.ir = <<-3, 4, 1, -2>> /\ dspOut.value.peak_idx = 3

\* C19: in compute_bode_data, for every non-empty response and every
\* fs > 0, the impulse slice is [max(0, p - pre), min(len(ir), p + post))
\* with pre = int(0.002 * fs) and post = int(0.050 * fs); it is non-empty,
\* contains the peak index p, and the time axis is 0 ms exactly at the slice
\* position of p.
C19_SliceContainsPeakAtZero ==
  (dspIn.fn = "compute_bode_data" /\ dspOut # Pending) =>
    LET p == dspIn.peak_idx IN
    /\ dspOut.status = "returned"
    /\ dspOut.value.n > 0
    /\ dspOut.value.start <= p /\ p < dspOut.value.end
    /\ dspOut.value.zeroAt = p - dspOut.value.start

\* C20: for an N-sample input (N >= 1), compute_spectrum returns exactly
\* N//2 + 1 frequencies and N//2 + 1 magnitudes with freqs[k] = k * fs / N:
\* freqs[0] = 0, and the last frequency is fs/2, or less than fs/2 by half a
\* bin width when N is odd.
C20_SpectrumBins ==
  (dspIn.fn = "compute_spectrum" /\ dspOut # Pending /\ Len(dspIn.signal) >= 1) =>
    LET N == Len(dspIn.signal)
        fs == dspIn.fs
        freqs == dspOut.value.freq_axis
        last == freqs[Len(freqs)]
    IN /\ dspOut.status = "returned"
       /\ Len(freqs) = N \div 2 + 1
       /\ dspOut.value.fft_mag_len = N \div 2 + 1
       /\ \A k \in 0..(N \div 2) :
            freqs[k + 1].den > 0 /\ freqs[k + 1].num * N = k * fs * freqs[k + 1].den
       /\ freqs[1].num = 0
       /\ 2 * last.num <= fs * last.den
       /\ 2 * N * last.num >= (N - 1) * fs * last.den
C20_Witness ==
  /\ dspIn.fn = "compute_spectrum" /\ dspOut # Pending
  /\ Len(dspIn.signal) = 5 /\ dspIn.fs = 10
  /\ Len(dspOut.value.freq_axis) = 3
  /\ dspOut.value.freq_axis[3] = Frac(20, 5)

\* C21: raw_to_volts returns for every raw array with values in
\* [0, ADC_MAX_VAL]; element by element the result is raw / ADC_MAX_VAL * V_REF:
\* 0 maps to 0 V, ADC_MAX_VAL maps to V_REF, every result lies in [0, V_REF],
\* and a larger raw value never gives a smaller voltage.
C21_RawToVoltsLinear ==
  (dspIn.fn = "raw_to_volts" /\ dspOut # Pending) =>
    LET raw == dspIn.raw_data
        v == dspOut.value
    IN /\ dspOut.status = "returned"
       /\ Len(v) = Len(raw)
       /\ \A i \in 1..Len(raw) :
            /\ v[i].den = ADC_MAX_VAL
            /\ 0 <= v[i].rem /\ v[i].rem < v[i].den
            /\ v[i].whole * v[i].den + v[i].rem = raw[i] * V_REF_MV
            /\ raw[i] = 0 => (v[i].whole = 0 /\ v[i].rem = 0)
            /\ raw[i] = ADC_MAX_VAL => (v[i].whole = V_REF_MV /\ v[i].rem = 0)
            /\ 0 <= v[i].whole
            /\ v[i].whole < V_REF_MV \/ (v[i].whole = V_REF_MV /\ v[i].rem = 0)
       /\ \A i, j \in 1..Len(raw) :
            raw[i] <= raw[j] =>
              \/ v[i].whole < v[j].whole
              \/ v[i].whole = v[j].whole /\ v[i].rem <= v[j].rem
C21_Witness ==
  /\ dspIn.fn = "raw_to_volts" /\ dspIn.raw_data = <<32768, ADC_MAX_VAL>>
  /\ dspOut = Returned(<<[whole |-> 1650, rem |-> 1650, den |-> ADC_MAX_VAL],
                         [whole |-> V_REF_MV, rem |-> 0, den |-> ADC_MAX_VAL]>>)

\* Some bin of the signal's spectrum lies strictly within window Hz of target.
BinWithin(signal, fs, target, window) ==
  \E k \in 0..(signal.n \div 2) :
    k * fs > (target - window) * signal.n /\ k * fs < (target + window) * signal.n

\* C22: extract_harmonics_list returns None when no spectrum bin lies within
\* 10 Hz of the fundamental; otherwise it returns n_harmonics rows with orders
\* 1..n_harmonics in increasing order, each typed Even iff its order is even,
\* the magnitude of order 1 equal to 1.0, every magnitude a number relative to
\* the fundamental, and magnitude 0.0 for a harmonic with no bin in its window.
\* compute_spectral_comparison returns None iff either signal's table is None.
C22_HarmonicTable ==
  /\ (dspIn.fn = "extract_harmonics_list" /\ dspOut # Pending) =>
       LET found == BinWithin(dspIn.signal, dspIn.fs, dspIn.fundamental_freq, 10)
           out == dspOut.value
       IN /\ dspOut.status = "returned"
          /\ ~found => out = NoneValue
          /\ found =>
               /\ out.kind = "DataFrame"
               /\ Len(out.rows) = dspIn.n_harmonics
               /\ \A i \in 1..Len(out.rows) :
                    LET row == out.rows[i] IN
                    /\ row.Order = i
                    /\ row.Type = (IF row.Order % 2 = 0 THEN "Even" ELSE "Odd")
                    /\ row.Magnitude # NaN /\ row.Magnitude # Inf
                    /\ row.Magnitude.den > 0 /\ row.Magnitude.num >= 0
                    /\ i = 1 => row.Magnitude.num = row.Magnitude.den
                    /\ ~BinWithin(dspIn.signal, dspIn.fs,
                                  dspIn.fundamental_freq * i, 10)
                         => row.Magnitude.num = 0
  /\ (dspIn.fn = "compute_spectral_comparison" /\ dspOut # Pending) =>
       /\ dspOut.status = "returned"
       /\ dspOut.value = NoneValue <=>
            \/ ~BinWithin(dspIn.sig_clean, dspIn.fs, dspIn.fundamental, 10)
            \/ ~BinWithin(dspIn.sig_dirty, dspIn.fs, dspIn.fundamental, 10)

\* The peak of harmonic i exceeds its local noise floor: some bin lies within
\* 5 Hz of i * fundamental, and the largest such bin is above the mean of the
\* bins between 5 and 15 Hz away (above 0 when there is no such bin).
PeakAboveNoise(signal, fs, target) ==
  LET N == signal.n
      near == {k \in 0..(N \div 2) :
                 k * fs > (target - 5) * N /\ k * fs < (target + 5) * N}
      around == {k \in 0..(N \div 2) :
                   k * fs > (target - 15) * N /\ k * fs < (target + 15) * N} \ near
      noiseSum == SumOver([k \in around |-> signal.mags[k + 1]], around)
  IN /\ near # {}
     /\ \E k \in near :
          IF around = {} THEN signal.mags[k + 1] > 0
          ELSE signal.mags[k + 1] * Cardinality(around) > noiseSum

\* C23: calculate_selective_thd never raises. It returns 0.0 when no spectrum
\* bin lies within 5 Hz of the fundamental; for every other input, silence
\* included, it returns a finite non-negative number, which is zero exactly
\* when no harmonic 2..n_harmonics has a peak above its local noise floor.
C23_ThdFallbacks ==
  (dspIn.fn = "calculate_selective_thd" /\ dspOut # Pending) =>
    LET thd == dspOut.value
        f == dspIn.fundamental_freq
    IN /\ dspOut.status = "returned"
       /\ ~BinWithin(dspIn.signal, dspIn.fs, f, 5) => thd = Frac(0, 1)
       /\ BinWithin(dspIn.signal, dspIn.fs, f, 5) =>
            /\ thd.den > 0 /\ thd.num >= 0
            /\ thd.num > 0 <=>
                 \E i \in 2..dspIn.n_harmonics :
                   PeakAboveNoise(dspIn.signal, dspIn.fs, f * i)

\* The errors a caller handles as errors: the subclasses of Exception raised by
\* the analysis and file functions. SystemExit is not one of them: it is the
\* interpreter's request to end the process.
HandleableErrors ==
  {"FileNotFoundError", "KeyError", "ValueError", "IOError",
   "ZeroDivisionError", "OverflowError"}

\* C24: no failure of an analysis or file function ends the process: every
\* failure is an error raised to the caller of the operation. When the data
\* file is absent, load_signal fails with such an error.
C24_NoFailureIsFatal ==
  /\ (dspOut # Pending /\ dspOut.status = "raised") =>
       dspOut.error \in HandleableErrors
  /\ (dspIn.fn = "load_signal" /\ dspOut # Pending /\ ~dspIn.exists) =>
       dspOut.status = "raised"

\* Sum of the frame counts of the first k callbacks that wrote a block.
RECURSIVE FramesBefore(_, _)
FramesBefore(blocks, k) ==
  IF k = 0 THEN 0 ELSE blocks[k].frames + FramesBefore(blocks, k - 1)

\* C26: after callbacks with frame counts f1..fk the oscillator's sample index
\* is f1 + ... + fk, and the k-th block was generated for exactly the indices
\* f1 + ... + f(k-1) up to f1 + ... + fk - 1: consecutive blocks are contiguous
\* and no index is skipped or repeated.  Entering, playing and leaving the
\* oscillator do not change the index.
C26_PhaseContinuity ==
  (dspIn.fn = "ContinuousOscillator" /\ dspOut # Pending) =>
    LET blocks == dspOut.blocks IN
    /\ dspOut._start_idx = FramesBefore(blocks, Len(blocks))
    /\ \A k \in 1..Len(blocks) :
         /\ Len(blocks[k].t) = blocks[k].frames
         /\ \A i \in 1..blocks[k].frames :
              blocks[k].t[i] = FramesBefore(blocks, k - 1) + (i - 1)
C26_Witness ==
  /\ dspIn.fn = "ContinuousOscillator" /\ dspOut # Pending
  /\ dspOut._start_idx = 5 /\ dspOut._stream = "closed"
  /\ Len(dspOut.blocks) = 3
  /\ dspOut.blocks[1].t = <<0>>
  /\ dspOut.blocks[2].t = <<1, 2>>
  /\ dspOut.blocks[3].t = <<3, 4>>

\* capture_continuous_stream has handled the interrupt and returned.
RecordReturned ==
  prog = "record" /\ pc = "after" /\ bodyEnd = "interrupt" /\ err = "none"
\* saved holds one array: the samples of the chunks, chunk after chunk.
SavedOnce(chunks) ==
  /\ Len(saved) = 1
  /\ Len(saved[1]) = Len(chunks) * chunkSize
  /\ \A j \in 1..Len(chunks) : \A k \in 1..chunkSize :
       saved[1][(j - 1) * chunkSize + k] = <<chunks[j][1], chunks[j][2] + 2 * (k - 1)>>

\* C27 as stated: nothing is saved before the keyboard interrupt; after an
\* interrupt in the with-block the session is disconnected before anything is
\* saved, and the function then saves exactly the chunks yielded before the
\* interrupt, concatenated in yield order, in one save, or nothing if no chunk
\* was yielded.
C27_SavesYieldedOnInterrupt ==
  prog = "record" =>
    /\ ~RecordReturned => saved = << >>
    /\ (pc = "after" /\ bodyEnd = "interrupt") => ser # 0 /\ ~isOpen[ser]
    /\ RecordReturned =>
         IF yielded = << >> THEN saved = << >> ELSE SavedOnce(yielded)

\* C27, amended: the same, for the chunks appended to the frame list. These
\* are the chunks yielded before the interrupt in yield order, except that the
\* last one is missing when the interrupt arrived between its yield and its
\* append.
C27_SavesAppendedOnInterrupt ==
  prog = "record" =>
    /\ Len(frames) <= Len(yielded) /\ Len(yielded) <= Len(frames) + 1
    /\ frames = SubSeq(yielded, 1, Len(frames))
    /\ (pc = "body" /\ gen # "yield") => frames = yielded
    /\ ~RecordReturned => saved = << >>
    /\ (pc = "after" /\ bodyEnd = "interrupt") => ser # 0 /\ ~isOpen[ser]
    /\ RecordReturned =>
         IF frames = << >> THEN saved = << >> ELSE SavedOnce(frames)
C27_Witness ==
  /\ RecordReturned /\ closeCalls[ser] = 1
  /\ Len(yielded) = 3 /\ Len(frames) = 2
  /\ Len(saved) = 1 /\ Len(saved[1]) = 2 * chunkSize

\* C28: when connect() has raised, no port opened by that call is open and
\* the session is disconnected, also when the failure came from the discard
\* of the input buffer after the port was opened.
C28_FailedConnectLeavesNoOpenPort ==
  (pc = "after" /\ ~entered /\ err = "IOError") =>
    /\ ~Connected
    /\ ~isOpen[session]

\* C29: in the sweep capture loop every yielded chunk is appended to frames
\* before a stop condition is looked at: between two passes frames holds
\* every chunk yielded so far in yield order, and when the loop has been left
\* through break it holds them all and at least one, so the concatenation
\* that follows is never given an empty list.
C29_AppendBeforeStopCheck ==
  prog = "sweep" =>
    /\ (pc = "body" /\ gen = "yield") =>
         yielded = Append(frames, ChunkId(lastRead))
    /\ (pc = "body" /\ gen # "yield") => frames = yielded
    /\ bodyEnd = "break" =>
         /\ Len(frames) >= 1
         /\ frames = yielded
C29_Witness ==
  /\ prog = "sweep" /\ pc = "after" /\ bodyEnd = "break"
  /\ audio = "active" /\ timedOut
  /\ Len(yielded) = 2 /\ frames = yielded

\* C30: software_trigger is idempotent for a fixed threshold: applied to its
\* own result it returns that result unchanged.  When the signal has a rising
\* crossing, the first crossing of the result is at index 0.
C30_TriggerIdempotent ==
  (dspIn.fn = "software_trigger twice" /\ dspOut # Pending) =>
    LET x == dspIn.signal
        th == dspIn.threshold
        y == dspOut.value.once
        z == dspOut.value.twice
    IN /\ dspOut.status = "returned"
       /\ z = y
       /\ (\E i \in 1..(Len(x) - 1) : x[i] < th /\ th <= x[i + 1]) =>
            y[1] < th /\ th <= y[2]
C30_Witness ==
  /\ dspIn.fn = "software_trigger twice" /\ dspOut # Pending
  /\ dspIn.signal = <<2, 2, 0, 1>> /\ dspIn.threshold = 1
  /\ dspOut.value.once = <<0, 1, 2, 2>>
  /\ dspOut.value.twice = <<0, 1, 2, 2>>

====
